---- MODULE Spec2Model ----
(***************************************************************************)
(* im-rs: the persistent ordered set `Set<A>` of src/src/set.rs, a newtype *)
(* over `Map<A, ()>`.  The adapter (set.rs) is translated from its source; *)
(* the weight-balanced tree engine behind it (module `map`, which set.rs   *)
(* imports but which is not part of the inspected sources) is modelled     *)
(* from sections 3 and 4.1 of the specification.                           *)
(***************************************************************************)
EXTENDS Integers, Sequences, FiniteSets, TLC

\* ------------------------------------------------------------------ bounds
\* Elements are the integers 1..MaxKey.
MaxKey == 4
\* Longest input sequence handed to from_iter / set!.
MaxLen == 4

Keys == 1..MaxKey
\* usize arguments of take/drop: 0, in range, and past the size of any set.
Counts == 0..(MaxKey + 1)

\* ------------------------------------------------------- the tree engine
\* Tree = Empty | Node{key, value, left, right, size}      (spec section 3)
Unit == "()"
Empty == [size |-> 0]
IsEmpty(t) == t.size = 0
\* Option<T>: None is <<>>, Some(x) is <<x>>.
None == <<>>
Some(x) == <<x>>
is_some(o) == Len(o) = 1

\* Weight-balance constants, the same for rebalancing and for valid().
DELTA == 3
RATIO == 2

map_empty == Empty
map_size(t) == t.size

\* A node whose cached size is 1 + size(left) + size(right).
bin(k, v, l, r) ==
  [key |-> k, value |-> v, left |-> l, right |-> r, size |-> 1 + l.size + r.size]

map_singleton(k, v) == bin(k, v, Empty, Empty)

\* Rotations of the join operation used by rebalancing.
single_left(k, v, l, r) ==
  bin(r.key, r.value, bin(k, v, l, r.left), r.right)

single_right(k, v, l, r) ==
  bin(l.key, l.value, l.left, bin(k, v, l.right, r))

double_left(k, v, l, r) ==
  bin(r.left.key, r.left.value,
      bin(k, v, l, r.left.left),
      bin(r.key, r.value, r.left.right, r.right))

double_right(k, v, l, r) ==
  bin(l.right.key, l.right.value,
      bin(l.key, l.value, l.left, l.right.left),
      bin(k, v, l.right.right, r))

rotate_left(k, v, l, r) ==
  IF r.left.size < RATIO * r.right.size
    THEN single_left(k, v, l, r)
    ELSE double_left(k, v, l, r)

rotate_right(k, v, l, r) ==
  IF l.right.size < RATIO * l.left.size
    THEN single_right(k, v, l, r)
    ELSE double_right(k, v, l, r)

balance_no_rotation(k, v, l, r) == bin(k, v, l, r)
\* Rebuild a node whose children differ from a balanced pair by one element:
\* a single or double rotation when one child is heavier than DELTA times
\* the other.
balance(k, v, l, r) ==
  IF l.size + r.size <= 1 THEN bin(k, v, l, r)
  ELSE IF r.size > DELTA * l.size THEN rotate_left(k, v, l, r)
  ELSE IF l.size > DELTA * r.size THEN rotate_right(k, v, l, r)
  ELSE bin(k, v, l, r)

RECURSIVE map_contains_key(_, _)
map_contains_key(t, k) ==
  IF IsEmpty(t) THEN FALSE
  ELSE IF k < t.key THEN map_contains_key(t.left, k)
  ELSE IF k > t.key THEN map_contains_key(t.right, k)
  ELSE TRUE

RECURSIVE map_insert(_, _, _)
map_insert(t, k, v) ==
  IF IsEmpty(t) THEN map_singleton(k, v)
  ELSE IF k < t.key THEN balance(t.key, t.value, map_insert(t.left, k, v), t.right)
  ELSE IF k > t.key THEN balance(t.key, t.value, t.left, map_insert(t.right, k, v))
  ELSE [t EXCEPT !.key = k, !.value = v]

\* insert_ref takes the key and the value already shared (Arc); the tree
\* built is the same.
map_insert_ref(t, k, v) == map_insert(t, k, v)

RECURSIVE insert_min(_, _, _)
insert_min(k, v, t) ==
  IF IsEmpty(t) THEN map_singleton(k, v)
  ELSE balance(t.key, t.value, insert_min(k, v, t.left), t.right)

RECURSIVE insert_max(_, _, _)
insert_max(k, v, t) ==
  IF IsEmpty(t) THEN map_singleton(k, v)
  ELSE balance(t.key, t.value, t.left, insert_max(k, v, t.right))

\* (minimum pair, tree without it) of a non-empty tree.
RECURSIVE delete_find_min(_)
delete_find_min(t) ==
  IF IsEmpty(t.left) THEN [key |-> t.key, value |-> t.value, rest |-> t.right]
  ELSE LET m == delete_find_min(t.left)
       IN [key |-> m.key, value |-> m.value,
           rest |-> balance(t.key, t.value, m.rest, t.right)]

RECURSIVE delete_find_max(_)
delete_find_max(t) ==
  IF IsEmpty(t.right) THEN [key |-> t.key, value |-> t.value, rest |-> t.left]
  ELSE LET m == delete_find_max(t.right)
       IN [key |-> m.key, value |-> m.value,
           rest |-> balance(t.key, t.value, t.left, m.rest)]

\* Glue the two children of a removed node: the larger child gives up its
\* extreme element as the new local root.
glue(l, r) ==
  IF IsEmpty(l) THEN r
  ELSE IF IsEmpty(r) THEN l
  ELSE IF l.size > r.size
    THEN LET m == delete_find_max(l) IN balance(m.key, m.value, m.rest, r)
    ELSE LET m == delete_find_min(r) IN balance(m.key, m.value, l, m.rest)

RECURSIVE map_delete(_, _)
map_delete(t, k) ==
  IF ~map_contains_key(t, k) THEN t
  ELSE IF k < t.key THEN balance(t.key, t.value, map_delete(t.left, k), t.right)
  ELSE IF k > t.key THEN balance(t.key, t.value, t.left, map_delete(t.right, k))
  ELSE glue(t.left, t.right)

\* Rejoin two balanced trees around a pivot that lies between them.
RECURSIVE link(_, _, _, _)
link(k, v, l, r) ==
  IF IsEmpty(l) THEN insert_min(k, v, r)
  ELSE IF IsEmpty(r) THEN insert_max(k, v, l)
  ELSE IF DELTA * l.size < r.size
    THEN balance(r.key, r.value, link(k, v, l, r.left), r.right)
  ELSE IF DELTA * r.size < l.size
    THEN balance(l.key, l.value, l.left, link(k, v, l.right, r))
  ELSE bin(k, v, l, r)

\* Rejoin two balanced trees, every key of l below every key of r.
RECURSIVE merge(_, _)
merge(l, r) ==
  IF IsEmpty(l) THEN r
  ELSE IF IsEmpty(r) THEN l
  ELSE IF DELTA * l.size < r.size
    THEN balance(r.key, r.value, merge(l, r.left), r.right)
  ELSE IF DELTA * r.size < l.size
    THEN balance(l.key, l.value, l.left, merge(l.right, r))
  ELSE glue(l, r)

\* (entries below k, value at k if present, entries above k)
RECURSIVE map_split_lookup(_, _)
map_split_lookup(t, k) ==
  IF IsEmpty(t) THEN <<Empty, None, Empty>>
  ELSE IF k < t.key
    THEN LET s == map_split_lookup(t.left, k)
         IN <<s[1], s[2], link(t.key, t.value, s[3], t.right)>>
  ELSE IF k > t.key
    THEN LET s == map_split_lookup(t.right, k)
         IN <<link(t.key, t.value, t.left, s[1]), s[2], s[3]>>
  ELSE <<t.left, Some(t.value), t.right>>

RECURSIVE map_split(_, _)
map_split(t, k) ==
  IF IsEmpty(t) THEN <<Empty, Empty>>
  ELSE IF k < t.key
    THEN LET s == map_split(t.left, k)
         IN <<s[1], link(t.key, t.value, s[2], t.right)>>
  ELSE IF k > t.key
    THEN LET s == map_split(t.right, k)
         IN <<link(t.key, t.value, t.left, s[1]), s[2]>>
  ELSE <<t.left, t.right>>

\* Pivot on the root of self; on a key of both, self's entry is kept.
RECURSIVE map_union(_, _)
map_union(t1, t2) ==
  IF IsEmpty(t2) THEN t1
  ELSE IF IsEmpty(t1) THEN t2
  ELSE LET s == map_split(t2, t1.key)
       IN link(t1.key, t1.value, map_union(t1.left, s[1]), map_union(t1.right, s[2]))

RECURSIVE map_intersection(_, _)
map_intersection(t1, t2) ==
  IF IsEmpty(t1) \/ IsEmpty(t2) THEN Empty
  ELSE LET s == map_split_lookup(t2, t1.key)
           l == map_intersection(t1.left, s[1])
           r == map_intersection(t1.right, s[3])
       IN IF is_some(s[2]) THEN link(t1.key, t1.value, l, r) ELSE merge(l, r)

RECURSIVE map_difference(_, _)
map_difference(t1, t2) ==
  IF IsEmpty(t1) THEN Empty
  ELSE IF IsEmpty(t2) THEN t1
  ELSE LET s == map_split(t1, t2.key)
       IN merge(map_difference(s[1], t2.left), map_difference(s[2], t2.right))

\* Rank slicing: descend by the cached sizes.
RECURSIVE map_take(_, _)
map_take(t, n) ==
  IF n >= t.size THEN t
  ELSE IF n <= 0 \/ IsEmpty(t) THEN Empty
  ELSE IF n < t.left.size THEN map_take(t.left, n)
  ELSE IF n > t.left.size
    THEN link(t.key, t.value, t.left, map_take(t.right, n - t.left.size - 1))
  ELSE t.left

RECURSIVE map_drop(_, _)
map_drop(t, n) ==
  IF n >= t.size THEN Empty
  ELSE IF n <= 0 \/ IsEmpty(t) THEN t
  ELSE IF n < t.left.size THEN link(t.key, t.value, map_drop(t.left, n), t.right)
  ELSE IF n > t.left.size THEN map_drop(t.right, n - t.left.size - 1)
  ELSE insert_min(t.key, t.value, t.right)

\* (Option<(K, V)>, Tree)
map_pop_min_with_key(t) ==
  IF IsEmpty(t) THEN <<None, Empty>>
  ELSE LET m == delete_find_min(t) IN <<Some(<<m.key, m.value>>), m.rest>>

map_pop_max_with_key(t) ==
  IF IsEmpty(t) THEN <<None, Empty>>
  ELSE LET m == delete_find_max(t) IN <<Some(<<m.key, m.value>>), m.rest>>

RECURSIVE map_lookup_min(_)
map_lookup_min(t) ==
  IF IsEmpty(t) THEN None
  ELSE IF IsEmpty(t.left) THEN Some(<<t.key, t.value>>)
  ELSE map_lookup_min(t.left)

RECURSIVE map_lookup_max(_)
map_lookup_max(t) ==
  IF IsEmpty(t) THEN None
  ELSE IF IsEmpty(t.right) THEN Some(<<t.key, t.value>>)
  ELSE map_lookup_max(t.right)

\* The iterator: an explicit stack of nodes whose key is still to be
\* yielded; push_left descends the left spine.
RECURSIVE push_left(_, _)
push_left(stack, t) ==
  IF IsEmpty(t) THEN stack ELSE push_left(<<t>> \o stack, t.left)

\* Run the iterator to its end, appending each yielded (key, value) to out.
RECURSIVE iter_run(_, _)
iter_run(stack, out) ==
  IF stack = <<>> THEN out
  ELSE LET n == Head(stack)
       IN iter_run(push_left(Tail(stack), n.right), Append(out, <<n.key, n.value>>))

map_iter(t) == iter_run(push_left(<<>>, t), <<>>)

\* valid(): ordering, cached sizes and balance re-derived at every node.
RECURSIVE keys_of(_)
keys_of(t) ==
  IF IsEmpty(t) THEN {} ELSE keys_of(t.left) \cup {t.key} \cup keys_of(t.right)

RECURSIVE real_size(_)
real_size(t) ==
  IF IsEmpty(t) THEN 0 ELSE 1 + real_size(t.left) + real_size(t.right)

RECURSIVE ordered(_)
ordered(t) ==
  IF IsEmpty(t) THEN TRUE
  ELSE /\ \A x \in keys_of(t.left) : x < t.key
       /\ \A x \in keys_of(t.right) : x > t.key
       /\ ordered(t.left)
       /\ ordered(t.right)

RECURSIVE valid_size(_)
valid_size(t) ==
  IF IsEmpty(t) THEN TRUE
  ELSE /\ t.size = 1 + real_size(t.left) + real_size(t.right)
       /\ valid_size(t.left)
       /\ valid_size(t.right)

RECURSIVE balanced(_)
balanced(t) ==
  IF IsEmpty(t) THEN TRUE
  ELSE /\ \/ t.left.size + t.right.size <= 1
          \/ /\ t.left.size <= DELTA * t.right.size
             /\ t.right.size <= DELTA * t.left.size
       /\ balanced(t.left)
       /\ balanced(t.right)

map_valid(t) == ordered(t) /\ valid_size(t) /\ balanced(t)

\* Equality of maps: the same entries in the same ascending order.
map_eq(t1, t2) == map_iter(t1) = map_iter(t2)

\* ------------------------------------------------ the Set adapter (set.rs)
\* Set<A>(Map<A, ()>): a set is its map; its elements are the map's keys.
empty == map_empty

singleton(x) == map_singleton(x, Unit)

\* Iter::next drops the unit value of each pair the map's iterator yields.
iter(s) == [i \in 1..Len(map_iter(s)) |-> map_iter(s)[i][1]]

size(s) == map_size(s)

valid(s) == map_valid(s)

insert_keep_self(s, x) == s
insert(s, x) == map_insert(s, x, Unit)

insert_ref(s, x) == map_insert_ref(s, x, Unit)

contains(s, x) == map_contains_key(s, x)

delete_extremum(s, x) == map_pop_min_with_key(s)[2]
delete(s, x) == map_delete(s, x)

union(s, other) == map_union(s, other)

difference(s, other) == map_difference(s, other)

intersection_as_union(s, other) == map_union(s, other)
intersection(s, other) == map_intersection(s, other)

split(s, k) ==
  LET p == map_split(s, k) IN <<p[1], p[2]>>

split_member_is_none(s, k) ==
  LET p == map_split_lookup(s, k) IN <<p[1], ~is_some(p[2]), p[3]>>
split_member(s, k) ==
  LET p == map_split_lookup(s, k) IN <<p[1], is_some(p[2]), p[3]>>

take(s, n) == map_take(s, n)

drop_as_take(s, n) == map_take(s, n)
drop(s, n) == map_drop(s, n)

\* pair.map(|(a, _)| a)
first_of(pair) == IF is_some(pair) THEN Some(pair[1][1]) ELSE None

pop_min_as_max(s) ==
  LET p == map_pop_max_with_key(s) IN <<first_of(p[1]), p[2]>>
pop_min(s) ==
  LET p == map_pop_min_with_key(s) IN <<first_of(p[1]), p[2]>>

pop_max(s) ==
  LET p == map_pop_max_with_key(s) IN <<first_of(p[1]), p[2]>>

delete_min(s) == pop_min(s)[2]

delete_max(s) == pop_max(s)[2]

\* Clone shares the root: the clone is the same tree.
clone(s) == s

eq(s, other) == map_eq(s, other)

\* Debug::fmt.  The output is the sequence of pieces written to the
\* formatter; `i` is the position of the peekable iterator in `it`.
RECURSIVE fmt_loop(_, _, _)
fmt_loop(it, i, text) ==
  IF i > Len(it) THEN text
  ELSE LET written == Append(text, ToString(it[i]))
       IN IF i + 1 > Len(it)
            THEN fmt_loop(it, i + 1, Append(written, " }"))
            ELSE fmt_loop(it, i + 1, Append(written, ", "))

fmt(s) == fmt_loop(iter(s), 1, <<"{ ">>)

\* i.into_iter().fold(set![], |s, a| s.insert(a))
RECURSIVE fold_insert(_, _)
fold_insert(acc, xs) ==
  IF xs = <<>> THEN acc ELSE fold_insert(insert(acc, Head(xs)), Tail(xs))

RECURSIVE fold_insert_ref(_, _)
fold_insert_ref(acc, xs) ==
  IF xs = <<>> THEN acc ELSE fold_insert_ref(insert_ref(acc, Head(xs)), Tail(xs))

from_iter_last_only(xs) ==
  IF xs = <<>> THEN empty ELSE insert(empty, xs[Len(xs)])
from_iter(xs) == fold_insert(empty, xs)

from_iter_ref(xs) == fold_insert_ref(empty, xs)

\* set![x, ...]: let mut l = empty(); l = l.insert(x); ...; l
set_macro(xs) == fold_insert(empty, xs)

\* From<Vec<A>> and the other From conversions: source.into_iter().collect()
from_vec(xs) == from_iter(xs)

\* ------------------------------------------------------------- the state
\* a, b    two live set handles of the caller (receiver and other operand)
\* ret     what the last call returned, until the caller binds or drops it
\* input   the element sequence a constructor was given
\* popped  the elements a drain by pop_min has yielded so far
\* pc      the caller's position
VARIABLES a, b, ret, input, popped, pc

vars == <<a, b, ret, input, popped, pc>>

NoRet ==
  [op |-> "none", arg |-> 0, l |-> Empty, r |-> Empty, flag |-> FALSE,
   elem |-> None, text |-> <<>>]

Returned(op, arg, l) == [NoRet EXCEPT !.op = op, !.arg = arg, !.l = l]

Init ==
  /\ a = empty
  /\ b = empty
  /\ ret = NoRet
  /\ input = <<>>
  /\ popped = <<>>
  /\ pc = "main"

\* A call on the receiver `a` (&self): the handles are left alone.
Call(r) ==
  /\ pc = "main"
  /\ ret.op = "none"
  /\ ret' = r
  /\ UNCHANGED <<a, b, input, popped, pc>>

InsertInPlace(x) ==
  /\ pc = "main"
  /\ ret.op = "none"
  /\ ret' = Returned("insert", x, insert(a, x))
  /\ a' = insert(a, x)
  /\ UNCHANGED <<b, input, popped, pc>>
Insert(x) == Call(Returned("insert", x, insert(a, x)))

InsertRef(x) == Call(Returned("insert_ref", x, insert_ref(a, x)))

Delete(x) == Call(Returned("delete", x, delete(a, x)))

Union == Call(Returned("union", 0, union(a, b)))

Intersection == Call(Returned("intersection", 0, intersection(a, b)))

Difference == Call(Returned("difference", 0, difference(a, b)))

Split(k) ==
  LET p == split(a, k)
  IN Call([Returned("split", k, p[1]) EXCEPT !.r = p[2]])

SplitMember(k) ==
  LET p == split_member(a, k)
  IN Call([Returned("split_member", k, p[1]) EXCEPT !.flag = p[2], !.r = p[3]])

Take(n) == Call(Returned("take", n, take(a, n)))

Drop(n) == Call(Returned("drop", n, drop(a, n)))

PopMin ==
  LET p == pop_min(a)
  IN Call([Returned("pop_min", 0, p[2]) EXCEPT !.elem = p[1]])

PopMax ==
  LET p == pop_max(a)
  IN Call([Returned("pop_max", 0, p[2]) EXCEPT !.elem = p[1]])

DeleteMin == Call(Returned("delete_min", 0, delete_min(a)))

DeleteMax == Call(Returned("delete_max", 0, delete_max(a)))

Clone == Call(Returned("clone", 0, clone(a)))

Fmt == Call([NoRet EXCEPT !.op = "fmt", !.text = fmt(a)])

\* The caller's side of a call: the returned set is bound to a handle
\* (`l = l.insert(x)`, `let (a, b) = s.split(k)`), or dropped.
SetOps ==
  {"insert", "insert_ref", "delete", "union", "intersection", "difference",
   "split", "split_member", "take", "drop", "pop_min", "pop_max",
   "delete_min", "delete_max", "clone"}

PairOps == {"split", "split_member"}

BindA ==
  /\ pc = "main"
  /\ ret.op \in SetOps
  /\ a' = ret.l
  /\ ret' = NoRet
  /\ UNCHANGED <<b, input, popped, pc>>

BindB ==
  /\ pc = "main"
  /\ ret.op \in SetOps
  /\ b' = ret.l
  /\ ret' = NoRet
  /\ UNCHANGED <<a, input, popped, pc>>

BindPair ==
  /\ pc = "main"
  /\ ret.op \in PairOps
  /\ a' = ret.l
  /\ b' = ret.r
  /\ ret' = NoRet
  /\ UNCHANGED <<input, popped, pc>>

BindRight ==
  /\ pc = "main"
  /\ ret.op \in PairOps
  /\ a' = ret.r
  /\ ret' = NoRet
  /\ UNCHANGED <<b, input, popped, pc>>

Discard ==
  /\ pc = "main"
  /\ ret.op # "none"
  /\ ret' = NoRet
  /\ UNCHANGED <<a, b, input, popped, pc>>

Next ==
  \/ \E x \in Keys : Insert(x)
  \/ \E x \in Keys : InsertRef(x)
  \/ \E x \in Keys : Delete(x)
  \/ Union
  \/ Intersection
  \/ Difference
  \/ \E k \in Keys : Split(k)
  \/ \E k \in Keys : SplitMember(k)
  \/ \E n \in Counts : Take(n)
  \/ \E n \in Counts : Drop(n)
  \/ PopMin
  \/ PopMax
  \/ DeleteMin
  \/ DeleteMax
  \/ Clone
  \/ Fmt
  \/ BindA
  \/ BindB
  \/ BindPair
  \/ BindRight
  \/ Discard

Spec == Init /\ [][Next]_vars

\* ------------------------------------- construction, then a drain by pop_min
\* A caller builds a set from a sequence, keeps a clone of it, and pops the
\* minimum until pop_min returns no element.
Inputs == UNION {[1..n -> Keys] : n \in 0..MaxLen}

InitSeq ==
  /\ input \in Inputs
  /\ a = empty
  /\ b = empty
  /\ ret = NoRet
  /\ popped = <<>>
  /\ pc = "start"

Built(s) ==
  /\ pc = "start"
  /\ a' = s
  /\ pc' = "built"
  /\ UNCHANGED <<b, ret, input, popped>>

SetMacro == Built(set_macro(input))

FromIter == Built(from_iter(input))

FromIterRef == Built(from_iter_ref(input))

FromVec == Built(from_vec(input))

\* let b = a.clone(): the version the drain starts from stays observable.
KeepClone ==
  /\ pc = "built"
  /\ b' = clone(a)
  /\ pc' = "drain"
  /\ UNCHANGED <<a, ret, input, popped>>

\* let (x, rest) = a.pop_min(); a = rest; x is collected when it is Some.
DrainStep ==
  /\ pc = "drain"
  /\ LET p == pop_min(a)
     IN /\ ret' = [Returned("pop_min", 0, p[2]) EXCEPT !.elem = p[1]]
        /\ a' = p[2]
        /\ popped' = IF is_some(p[1]) THEN Append(popped, p[1][1]) ELSE popped
        /\ pc' = IF is_some(p[1]) THEN "drain" ELSE "done"
  /\ UNCHANGED <<b, input>>

NextSeq ==
  \/ SetMacro
  \/ FromIter
  \/ FromIterRef
  \/ FromVec
  \/ KeepClone
  \/ DrainStep

SpecSeq == InitSeq /\ [][NextSeq]_vars

\* ----------------------------------------------------------------- claims
\* The elements of a set, and the ascending enumeration of a finite set of
\* integers, defined without the tree algorithms.
Elems(s) == {iter(s)[i] : i \in 1..Len(iter(s))}

RECURSIVE Ascending(_)
Ascending(S) ==
  IF S = {} THEN <<>>
  ELSE LET m == CHOOSE x \in S : \A y \in S : x <= y
       IN <<m>> \o Ascending(S \ {m})

Range(xs) == {xs[i] : i \in 1..Len(xs)}

Min(x, y) == IF x < y THEN x ELSE y

\* C1: every set produced from the empty set by any sequence of insert,
\* delete, union, intersection, difference, split (both halves), take and
\* drop satisfies valid(): ordering, cached sizes and the balance bound hold
\* at every node of every live handle and of every returned set.
C1_Valid ==
  /\ valid(a)
  /\ valid(b)
  /\ valid(ret.l)
  /\ valid(ret.r)

\* A delete below the root of a full set that moved the root: the path was
\* rebalanced by a rotation.
C1_Witness ==
  /\ ret.op = "delete"
  /\ size(a) >= 4
  /\ contains(a, ret.arg)
  /\ ret.arg # a.key
  /\ ret.l.key # a.key
  /\ valid(ret.l)

\* C2: an operation that returns a new set leaves every existing version
\* unchanged: after the call the receiver, the other operand and any clone
\* have the size and the iter() sequence they had before it.
ReturningOps == SetOps \ {"clone"}

SameVersion(s, t) == size(s) = size(t) /\ iter(s) = iter(t)

C3_Insert ==
  ret.op = "insert" =>
    /\ contains(ret.l, ret.arg)
    /\ size(ret.l) = size(a) + (IF contains(a, ret.arg) THEN 0 ELSE 1)
    /\ Len(iter(ret.l)) = Cardinality(Elems(ret.l))
    /\ Cardinality({i \in 1..Len(iter(ret.l)) : iter(ret.l)[i] = ret.arg}) = 1

\* An element already present was inserted again.
C3_Witness ==
  /\ ret.op = "insert"
  /\ size(a) >= 3
  /\ contains(a, ret.arg)
  /\ size(ret.l) = size(a)

\* C4: delete(S, x) does not contain x, its size is size(S) minus one
\* exactly when x was present, and it equals S when x was absent.
C4_Delete ==
  ret.op = "delete" =>
    /\ ~contains(ret.l, ret.arg)
    /\ size(ret.l) = size(a) - (IF contains(a, ret.arg) THEN 1 ELSE 0)
    /\ (~contains(a, ret.arg) => eq(ret.l, a))

\* The root of a set, with both children present, was deleted.
C4_Witness ==
  /\ ret.op = "delete"
  /\ size(a) >= 3
  /\ ret.arg = a.key
  /\ ~IsEmpty(a.left)
  /\ ~IsEmpty(a.right)
  /\ size(ret.l) = size(a) - 1

\* C5: x is in union(A, B) iff in A or B, in intersection(A, B) iff in A and
\* B, in difference(A, B) iff in A and not B; size(union) + size(intersection)
\* = size(A) + size(B); union(A, A) = A, intersection(A, A) = A and
\* difference(A, A) is empty.
C5_SetAlgebra ==
  ret.op \in {"union", "intersection", "difference"} =>
    /\ \A x \in Keys :
         /\ ret.op = "union" =>
              (contains(ret.l, x) <=> (contains(a, x) \/ contains(b, x)))
         /\ ret.op = "intersection" =>
              (contains(ret.l, x) <=> (contains(a, x) /\ contains(b, x)))
         /\ ret.op = "difference" =>
              (contains(ret.l, x) <=> (contains(a, x) /\ ~contains(b, x)))
    /\ size(union(a, b)) + size(intersection(a, b)) = size(a) + size(b)
    /\ eq(union(a, a), a)
    /\ eq(intersection(a, a), a)
    /\ size(difference(a, a)) = 0
    /\ iter(difference(a, a)) = <<>>

\* intersection({1,2,3}, {2,3,4}) = {2,3}
C5_Witness ==
  /\ ret.op = "intersection"
  /\ Elems(a) = {1, 2, 3}
  /\ Elems(b) = {2, 3, 4}
  /\ iter(ret.l) = <<2, 3>>

\* C6: split(S, k) and split_member(S, k) return the same L and R; L holds
\* the elements of S below k and R those above k, nothing else and nothing
\* missing; size(L) + size(R) + (1 if k in S) = size(S); the flag of
\* split_member is contains(S, k).
C6_Split ==
  ret.op \in {"split", "split_member"} =>
    LET k == ret.arg
        sp == split(a, k)
        sm == split_member(a, k)
    IN /\ eq(sp[1], sm[1])
       /\ eq(sp[2], sm[3])
       /\ \A x \in Elems(ret.l) : x < k
       /\ \A x \in Elems(ret.r) : x > k
       /\ Elems(ret.l) \cup Elems(ret.r) = Elems(a) \ {k}
       /\ size(ret.l) + size(ret.r) + (IF contains(a, k) THEN 1 ELSE 0) = size(a)
       /\ (ret.op = "split_member" => ret.flag = contains(a, k))

\* A split at an element that is present and is not the root, with both
\* halves non-empty.
C6_Witness ==
  /\ ret.op = "split_member"
  /\ ret.flag
  /\ ret.arg # a.key
  /\ size(ret.l) >= 1
  /\ size(ret.r) >= 1

\* C7: for every n >= 0, take(S, n) is the first min(n, size(S)) elements of
\* S in ascending order and drop(S, n) is the rest: together they partition
\* the ascending sequence of S.
C7_TakeDrop ==
  ret.op \in {"take", "drop"} =>
    LET n == ret.arg
        s == iter(a)
        m == Min(n, size(a))
    IN /\ (ret.op = "take" => iter(ret.l) = SubSeq(s, 1, m))
       /\ (ret.op = "drop" => iter(ret.l) = SubSeq(s, m + 1, Len(s)))
       /\ iter(take(a, n)) \o iter(drop(a, n)) = s
       /\ size(take(a, n)) = m
       /\ size(drop(a, n)) = size(a) - m

\* A drop strictly inside a set of at least three elements.
C7_Witness ==
  /\ ret.op = "drop"
  /\ size(a) >= 3
  /\ ret.arg > 0
  /\ ret.arg < size(a)
  /\ size(ret.l) = size(a) - ret.arg

\* C8: popping the minimum again and again yields the iter() sequence of the
\* set the drain started from: the pops so far are a prefix of it, after
\* size(S) pops the rest is empty, and the pop after that returns no element
\* and the empty set.
C8_Drain ==
  pc \in {"drain", "done"} =>
    /\ popped = SubSeq(iter(b), 1, Len(popped))
    /\ size(a) = size(b) - Len(popped)
    /\ (Len(popped) = size(b) => IsEmpty(a))
    /\ (pc = "done" =>
          /\ popped = iter(b)
          /\ ret.elem = None
          /\ IsEmpty(ret.l))

\* A drain of three elements built out of order has ended.
C8_Witness ==
  /\ pc = "done"
  /\ Len(popped) >= 3
  /\ input[1] > input[2]

\* C9: a set built from a sequence (set!, FromIterator, From) iterates as the
\* elements of the sequence in strictly ascending order, each once, whatever
\* their order in the input.
C9_RoundTrip ==
  pc = "built" => iter(a) = Ascending(Range(input))

\* Built from a descending input with a repeated element.
C9_Witness ==
  /\ pc = "built"
  /\ Len(input) = 3
  /\ input[1] > input[2]
  /\ input[3] = input[1]
  /\ size(a) = 2

\* C10: Debug output of every set, the empty one included, opens with a
\* brace, closes with the matching brace, and holds the elements ascending
\* with one separator between each two consecutive elements.
RECURSIVE Separated(_)
Separated(xs) ==
  IF xs = <<>> THEN <<>>
  ELSE IF Len(xs) = 1 THEN <<ToString(xs[1])>>
  ELSE <<ToString(xs[1]), ", ">> \o Separated(Tail(xs))

C10_DebugBraces ==
  ret.op = "fmt" =>
    /\ Len(ret.text) >= 2
    /\ ret.text[1] = "{ "
    /\ ret.text[Len(ret.text)] = " }"
    /\ SubSeq(ret.text, 2, Len(ret.text) - 1) = Separated(iter(a))

====
